---- MODULE Spec2Model ----
(***************************************************************************)
(* A model of sqlcmock: main.go (main, run) and the generator package      *)
(* (Parse, fields, exprToString, findOutputModule, findModuleRoot,         *)
(* setOutputPackage, Render).                                              *)
(*                                                                         *)
(* Go strings are sequences of runes; a rune is a one-character string,    *)
(* or "U+xxxx" for a rune outside ASCII.                                   *)
(* Syntax-tree nodes are records with a "kind" field named after the       *)
(* go/ast node type.                                                       *)
(***************************************************************************)
EXTENDS Integers, Sequences, FiniteSets, TLC

(***************************************************************************)
(* Bounds of the model.                                                    *)
(***************************************************************************)
\* nesting depth of pointer / slice / array constructors around a type
MaxDepth == 2
\* names sharing one type in one entry of a parameter or result list
MaxNames == 2
\* entries of a parameter or result list
MaxEntries == 2
\* path segments of the deepest directory of the file system
MaxPathLen == 2
\* entries (methods and embedded interfaces) of the Querier interface
MaxMethods == 2
\* type declarations of the source file
MaxDecls == 2

(***************************************************************************)
(* Runes.                                                                  *)
(***************************************************************************)
UpperAZ == {"A","B","C","D","E","F","G","H","I","J","K","L","M",
            "N","O","P","Q","R","S","T","U","V","W","X","Y","Z"}

LowerAZ == {"a","b","c","d","e","f","g","h","i","j","k","l","m",
            "n","o","p","q","r","s","t","u","v","w","x","y","z"}

Digits09 == {"0","1","2","3","4","5","6","7","8","9"}

AlphaNum == UpperAZ \cup LowerAZ \cup Digits09

(***************************************************************************)
(* go/ast nodes.                                                           *)
(***************************************************************************)
\* a nil pointer (a nil *ast.FieldList, a nil ArrayType.Len)
NilNode == [kind |-> "nil"]

Ident(name) == [kind |-> "Ident", name |-> name]

SelectorExpr(x, sel) == [kind |-> "SelectorExpr", x |-> Ident(x), sel |-> Ident(sel)]

StarExpr(x) == [kind |-> "StarExpr", x |-> x]

\* len is NilNode for a slice
ArrayType(len, elt) == [kind |-> "ArrayType", len |-> len, elt |-> elt]

BasicLit(value) == [kind |-> "BasicLit", value |-> value]

ChanType(value) == [kind |-> "ChanType", value |-> value]

MapType(key, value) == [kind |-> "MapType", key |-> key, value |-> value]

Ellipsis(elt) == [kind |-> "Ellipsis", elt |-> elt]

FuncType(params, results) == [kind |-> "FuncType", params |-> params, results |-> results]

InterfaceType(methods) == [kind |-> "InterfaceType", methods |-> methods]

Field(names, type) == [kind |-> "Field", names |-> names, type |-> type]

FieldList(list) == [kind |-> "FieldList", list |-> list]

TypeSpec(name, type) == [kind |-> "TypeSpec", name |-> Ident(name), type |-> type]

(***************************************************************************)
(* exprToString and fields.                                                *)
(***************************************************************************)
\* fmt's %T of a node: the dynamic type of the ast.Expr
TypeName(expr) ==
    <<"*","a","s","t",".">> \o
    CASE expr.kind = "ChanType"      -> <<"C","h","a","n","T","y","p","e">>
      [] expr.kind = "MapType"       -> <<"M","a","p","T","y","p","e">>
      [] expr.kind = "Ellipsis"      -> <<"E","l","l","i","p","s","i","s">>
      [] expr.kind = "FuncType"      -> <<"F","u","n","c","T","y","p","e">>
      [] expr.kind = "InterfaceType" -> <<"I","n","t","e","r","f","a","c","e","T","y","p","e">>
      [] expr.kind = "StructType"    -> <<"S","t","r","u","c","t","T","y","p","e">>
      [] expr.kind = "IndexExpr"     -> <<"I","n","d","e","x","E","x","p","r">>
      [] expr.kind = "BasicLit"      -> <<"B","a","s","i","c","L","i","t">>

\* fmt.Sprintf("<error_unhandled_%T>", expr)
Unhandled(expr) ==
    <<"<","e","r","r","o","r","_","u","n","h","a","n","d","l","e","d","_">>
        \o TypeName(expr) \o <<">">>

RECURSIVE exprToString(_)
exprToString(expr) ==
    CASE expr.kind = "Ident"        -> expr.name
      [] expr.kind = "SelectorExpr" -> expr.x.name \o <<".">> \o expr.sel.name
      [] expr.kind = "ArrayType"    -> <<"[","]">> \o exprToString(expr.elt)
      [] expr.kind = "StarExpr"     -> <<"*">> \o exprToString(expr.x)
      [] OTHER                      -> Unhandled(expr)

\* The places k at which ^([^A-Za-z0-9]*)([A-Z][^.]*)$ matches s with group 1
\* = s[1..k] and group 2 = s[k+1..Len(s)].
needsPackageSplits(s) ==
    {k \in 0..Len(s) :
        /\ \A i \in 1..k : s[i] \notin AlphaNum
        /\ k < Len(s)
        /\ s[k+1] \in UpperAZ
        /\ \A i \in (k+2)..Len(s) : s[i] # "."}

\* a regex that qualifies whatever follows the prefix: ^([^A-Za-z0-9]*)([A-Za-z].*)$
needsPackageSplitsAnyIdent(s) ==
    {k \in 0..Len(s) :
        /\ \A i \in 1..k : s[i] \notin AlphaNum
        /\ k < Len(s)
        /\ s[k+1] \in UpperAZ \cup LowerAZ}

\* needsPackageRe.FindStringSubmatch(tp): group 1 is greedy
FindStringSubmatch(splits, tp) ==
    IF splits = {}
    THEN [matched |-> FALSE, m1 |-> <<>>, m2 |-> <<>>]
    ELSE LET k == CHOOSE x \in splits : \A y \in splits : y <= x
         IN  [matched |-> TRUE, m1 |-> SubSeq(tp, 1, k), m2 |-> SubSeq(tp, k + 1, Len(tp))]

needsPackageReAnyIdent(tp) == FindStringSubmatch(needsPackageSplitsAnyIdent(tp), tp)

needsPackageRe(tp) == FindStringSubmatch(needsPackageSplits(tp), tp)

\* the rewrite of line 145 with the prefix group dropped
qualifyNoPrefix(matches, pkg) == pkg \o <<".">> \o matches.m2

\* tp = matches[1] + pkg + "." + matches[2]
qualify(matches, pkg) == matches.m1 \o pkg \o <<".">> \o matches.m2

\* one iteration of the loop of fields: the Field appended for one list entry
fieldOf(field, pkg) ==
    LET name    == IF Len(field.names) > 0 /\ field.names[1].kind # "nil"
                   THEN field.names[1].name
                   ELSE <<>>
        tp      == exprToString(field.type)
        matches == needsPackageRe(tp)
    IN  [Name |-> name,
         Type |-> IF matches.matched THEN qualify(matches, pkg) ELSE tp]

RECURSIVE fieldsLoop(_, _, _)
fieldsLoop(l, pkg, ret) ==
    IF l = <<>> THEN ret
    ELSE fieldsLoop(Tail(l), pkg, Append(ret, fieldOf(Head(l), pkg)))

\* fields(list, pkg); list.List on a nil *ast.FieldList is a nil dereference
fields(list, pkg) ==
    IF list.kind = "nil"
    THEN [panic |-> TRUE, ret |-> <<>>]
    ELSE [panic |-> FALSE, ret |-> fieldsLoop(list.list, pkg, <<>>)]

(***************************************************************************)
(* ast.Inspect and the two traversals of Parse.                            *)
(***************************************************************************)
Str_Querier == <<"Q","u","e","r","i","e","r">>

\* the children ast.Walk visits, in its order; nil children are skipped
Children(n) ==
    CASE n.kind = "TypeSpec"      -> <<n.name, n.type>>
      [] n.kind = "InterfaceType" -> <<n.methods>>
      [] n.kind = "FieldList"     -> n.list
      [] n.kind = "Field"         -> n.names \o <<n.type>>
      [] n.kind = "FuncType"      -> <<n.params, n.results>>
      [] n.kind = "StarExpr"      -> <<n.x>>
      [] n.kind = "ArrayType"     -> <<n.len, n.elt>>
      [] n.kind = "SelectorExpr"  -> <<n.x, n.sel>>
      [] n.kind = "ChanType"      -> <<n.value>>
      [] n.kind = "MapType"       -> <<n.key, n.value>>
      [] n.kind = "Ellipsis"      -> <<n.elt>>
      [] OTHER                    -> <<>>

\* the nodes ast.Inspect hands to a callback that always returns true
RECURSIVE Walk(_)
RECURSIVE WalkAll(_)
Walk(n) == IF n.kind = "nil" THEN <<>> ELSE <<n>> \o WalkAll(Children(n))

WalkAll(ns) == IF ns = <<>> THEN <<>> ELSE Walk(Head(ns)) \o WalkAll(Tail(ns))

\* the first callback with the name test dropped: any type declaration is taken
isQuerierAnyName(n) == n.kind = "TypeSpec"

\* tp, ok := n.(*ast.TypeSpec); ok && tp.Name.Name == "Querier"
isQuerier(n) == n.kind = "TypeSpec" /\ n.name.name = Str_Querier

\* The first ast.Inspect over the declarations of the file: every matching
\* TypeSpec is assigned to querier, and its subtree is not entered.
RECURSIVE findQuerier(_, _)
findQuerier(decls, querier) ==
    IF decls = <<>> THEN querier
    ELSE findQuerier(Tail(decls), IF isQuerier(Head(decls)) THEN Head(decls) ELSE querier)

\* The second callback over the nodes of querier in visiting order: an Ident
\* sets funcName, a FuncType appends a Method.
RECURSIVE inspectQuerier(_, _, _, _)
inspectQuerier(nodes, pkg, funcName, methods) ==
    IF nodes = <<>> THEN [panic |-> FALSE, methods |-> methods]
    ELSE LET n == Head(nodes) IN
         IF n.kind = "Ident" THEN inspectQuerier(Tail(nodes), pkg, n.name, methods)
         ELSE IF n.kind = "FuncType"
         THEN LET in  == fields(n.params, pkg)
                  out == fields(n.results, pkg)
              IN  IF in.panic \/ out.panic
                  THEN [panic |-> TRUE, methods |-> methods]
                  ELSE inspectQuerier(Tail(nodes), pkg, funcName,
                          Append(methods, [Name |-> funcName, Input |-> in.ret, Output |-> out.ret]))
         ELSE inspectQuerier(Tail(nodes), pkg, funcName, methods)

\* lines 84-101
extractMethods(querier, pkg) == inspectQuerier(Walk(querier), pkg, <<>>, <<>>)

\* strconv.Unquote of an import path literal: raw is the text between the quotes
Unquote(lit) == [ok |-> lit.valid, path |-> lit.raw]

\* lines 103-117
RECURSIVE collectImports(_, _)
collectImports(specs, imports) ==
    IF specs = <<>> THEN [ok |-> TRUE, imports |-> imports]
    ELSE LET imp == Head(specs)
             u   == Unquote(imp.path)
         IN  IF ~u.ok THEN [ok |-> FALSE, imports |-> <<>>]
             ELSE collectImports(Tail(specs),
                     Append(imports, [Path |-> u.path,
                                      Name |-> IF imp.name.kind = "nil" THEN <<>> ELSE imp.name.name]))

(***************************************************************************)
(* Paths (path/filepath on a slash-separated file system) and the module   *)
(* resolver: findModuleRoot and findOutputModule.                          *)
(*                                                                         *)
(* A file system fs maps every directory to what its entry "go.mod" is:    *)
(* "none", "dir" (a directory of that name) or "file".                     *)
(***************************************************************************)
Str_gomod == <<"g","o",".","m","o","d">>

\* the index of the last "/" of path, 0 when there is none
LastSlash(path) ==
    LET S == {i \in 1..Len(path) : path[i] = "/"}
    IN  IF S = {} THEN 0 ELSE CHOOSE i \in S : \A j \in S : j <= i

\* filepath.Dir of a clean path
Dir(path) ==
    LET i == LastSlash(path)
    IN  IF i = 0 THEN <<".">>
        ELSE IF i = 1 THEN <<"/">>
        ELSE SubSeq(path, 1, i - 1)

\* filepath.Base of a clean path
Base(path) ==
    IF path = <<"/">> THEN path ELSE SubSeq(path, LastSlash(path) + 1, Len(path))

\* filepath.IsAbs
IsAbs(path) == path # <<>> /\ path[1] = "/"

\* filepath.Join(dir, name) of clean arguments: empty elements are ignored
Join(dir, name) ==
    IF dir = <<>> THEN name
    ELSE IF dir[Len(dir)] = "/" THEN dir \o name
    ELSE dir \o <<"/">> \o name

\* filepath.Abs(path) once the working directory is known
Abs(cwd, path) == IF IsAbs(path) THEN path ELSE Join(cwd, path)

HasPrefix(str, prefix) ==
    Len(prefix) <= Len(str) /\ SubSeq(str, 1, Len(prefix)) = prefix

\* strings.TrimPrefix
TrimPrefix(str, prefix) ==
    IF HasPrefix(str, prefix) THEN SubSeq(str, Len(prefix) + 1, Len(str)) ELSE str

\* os.Stat(filepath.Join(dir, "go.mod")) without the !fi.IsDir() test
StatGoModAnyKind(fs, dir) == dir \in DOMAIN fs /\ fs[dir] # "none"

\* os.Stat(filepath.Join(dir, "go.mod")): err == nil && !fi.IsDir()
StatGoMod(fs, dir) == dir \in DOMAIN fs /\ fs[dir] = "file"

\* one iteration of the loop of findModuleRoot on the absolute directory dir
findModuleRootStep(fs, dir) ==
    IF StatGoMod(fs, dir) THEN [done |-> TRUE, root |-> dir, dir |-> dir]
    ELSE LET d == Dir(dir)
         IN  IF d = dir THEN [done |-> TRUE, root |-> <<>>, dir |-> dir]
             ELSE [done |-> FALSE, root |-> <<>>, dir |-> d]

RECURSIVE findModuleRoot(_, _)
findModuleRoot(fs, dir) ==
    LET step == findModuleRootStep(fs, dir)
    IN  IF step.done THEN step.root ELSE findModuleRoot(fs, step.dir)

\* The directory whose go.mod a path names: the path is resolved against the
\* working directory when it is relative.
GoModDirOf(cwd, modFile) == Dir(Abs(cwd, modFile))

\* What the environment answers to one call of findOutputModule:
\*   absOk    whether os.Getwd succeeds inside filepath.Abs (relative paths only)
\*   readOk   whether os.ReadFile can read an existing regular file
\*   content  what that file holds
GarbageContent == [kind |-> "garbage", path |-> <<>>]

\* a go.mod without a module directive: modfile.Parse leaves File.Module nil
NoModuleContent == [kind |-> "nomodule", path |-> <<>>]

ModuleContent(path) == [kind |-> "module", path |-> path]

NoResult == [outcome |-> "none", err |-> "nil", ModelPath |-> <<>>]

\* filepath.Abs(path): os.Getwd is called, and can fail, for a relative path only
filepathAbs(cwd, input, absOk) ==
    IF ~IsAbs(input) /\ ~absOk
    THEN [ok |-> FALSE, abs |-> <<>>]
    ELSE [ok |-> TRUE, abs |-> Abs(cwd, input)]

\* modContent, err := os.ReadFile(modFile); from is the directory of the file read
readGoMod(fs, cwd, modFile, readOk, content) ==
    LET d == GoModDirOf(cwd, modFile)
    IN  IF d \in DOMAIN fs /\ fs[d] = "file" /\ readOk
        THEN [ok |-> TRUE, content |-> content, from |-> d]
        ELSE [ok |-> FALSE, content |-> GarbageContent, from |-> <<>>]

\* modfile.Parse and the assignment of output.ModelPath (lines 185-190)
deriveModelPath(content, dir, root) ==
    IF content.kind = "garbage"
    THEN [outcome |-> "error", err |-> "modfile.Parse", ModelPath |-> <<>>]
    ELSE IF content.kind = "nomodule"
    THEN [outcome |-> "panic", err |-> "nil dereference", ModelPath |-> <<>>]
    ELSE [outcome |-> "ok", err |-> "nil",
          ModelPath |-> content.path \o TrimPrefix(dir, root)]

\* output.findOutputModule(opts) as one call
findOutputModule(fs, cwd, input, io) ==
    LET a == filepathAbs(cwd, input, io.absOk) IN
    IF ~a.ok THEN [outcome |-> "error", err |-> "filepath.Abs", ModelPath |-> <<>>]
    ELSE LET dir  == Dir(a.abs)
             root == findModuleRoot(fs, dir)
             r    == readGoMod(fs, cwd, Join(root, Str_gomod), io.readOk, io.content)
         IN  IF ~r.ok
             THEN [outcome |-> "error", err |-> "os.ReadFile", ModelPath |-> <<>>]
             ELSE deriveModelPath(r.content, dir, root)

(***************************************************************************)
(* Output, setOutputPackage, and the decisions of run and main.            *)
(***************************************************************************)
Str_Mocker == <<"M","o","c","k","e","r">>

\* Output{}
EmptyOutput ==
    [GenPackage |-> <<>>, ModelPath |-> <<>>, Package |-> <<>>, Struct |-> <<>>,
     Imports |-> <<>>, Methods |-> <<>>]

\* output.setOutputPackage(opts): log.Fatal when filepath.Abs fails
setOutputPackage(opts, cwd, absOk) ==
    IF opts.OutputPackage # <<>>
    THEN [fatal |-> FALSE, GenPackage |-> opts.OutputPackage]
    ELSE LET a == filepathAbs(cwd, opts.OutputFile, absOk)
         IN  IF ~a.ok THEN [fatal |-> TRUE, GenPackage |-> <<>>]
             ELSE [fatal |-> FALSE, GenPackage |-> Base(Dir(a.abs))]

\* main.go lines 34-37: where run goes after generator.Parse
afterParse(e) == IF e # "nil" THEN "main" ELSE "RenderReadTemplate"

\* run that writes whatever Render returned
afterRenderIgnoresErr(e) == "WriteFile"

\* main.go lines 38-41: where run goes after output.Render
afterRender(e) == IF e # "nil" THEN "main" ELSE "WriteFile"

\* main.go lines 14-18: log.Fatal exits with status 1
exitStatus(e) == IF e # "nil" THEN 1 ELSE 0

(***************************************************************************)
(* Source text used by the inputs.                                         *)
(***************************************************************************)
Str_int == <<"i","n","t">>

Str_error == <<"e","r","r","o","r">>

Str_context == <<"c","o","n","t","e","x","t">>

Str_Context == <<"C","o","n","t","e","x","t">>

Str_Pkg == <<"P","k","g">>

Str_Thing == <<"T","h","i","n","g">>

Str_Foo == <<"F","o","o">>

Str_User == <<"U","s","e","r">>

\* an identifier with a digit, an underscore and a non-ASCII letter after its first rune
Str_T1 == <<"T","1","_","U+00E9">>

\* an identifier whose first rune is a non-ASCII letter
Str_Etat == <<"U+00C9","t","a","t">>

Str_ctx == <<"c","t","x">>

Str_id == <<"i","d">>

Str_n == <<"n">>

Str_db == <<"d","b">>

Str_bar == <<"b","a","r">>

(***************************************************************************)
(* Inputs of fields: parameter and result lists as the parser builds them. *)
(***************************************************************************)
BaseTypes ==
    {Ident(Str_Foo), Ident(Str_T1), Ident(Str_Etat), Ident(Str_error),
     SelectorExpr(Str_context, Str_Context), SelectorExpr(Str_Pkg, Str_Thing),
     ChanType(Ident(Str_int))}

Wrappers(T) ==
    {StarExpr(t) : t \in T}
        \cup {ArrayType(NilNode, t) : t \in T}
        \cup {ArrayType(BasicLit(<<"3">>), t) : t \in T}

RECURSIVE TypeExprs(_)
TypeExprs(d) ==
    IF d = 0 THEN BaseTypes
    ELSE LET T == TypeExprs(d - 1) IN T \cup Wrappers(T)

\* the types of the lists with several entries
FlatTypes ==
    {Ident(Str_int), Ident(Str_error), SelectorExpr(Str_context, Str_Context),
     StarExpr(Ident(Str_User))}

ParamNames == <<Ident(Str_ctx), Ident(Str_id), Ident(Str_n)>>

\* the names of one entry: none, or up to MaxNames consecutive names
NameLists ==
    {SubSeq(ParamNames, w[1], w[1] + w[2] - 1) :
        w \in {x \in (1..Len(ParamNames)) \X (0..MaxNames) : x[1] + x[2] - 1 <= Len(ParamNames)}}

Entries(T) == {Field(names, t) : names \in NameLists, t \in T}

DeepLists == {FieldList(<<e>>) : e \in Entries(TypeExprs(MaxDepth))}

WideLists ==
    {FieldList(l) : l \in UNION {[1..k -> Entries(FlatTypes)] : k \in 0..MaxEntries}}

InputLists == DeepLists \cup WideLists \cup {NilNode}

Packages == {Str_db, Str_bar}

(***************************************************************************)
(* Inputs of Parse: source files as go/parser builds them.                 *)
(***************************************************************************)
GetUserParams ==
    FieldList(<<Field(<<Ident(Str_ctx)>>, SelectorExpr(Str_context, Str_Context)),
                Field(<<Ident(Str_id)>>, Ident(Str_int))>>)

GetUserResults ==
    FieldList(<<Field(<<>>, StarExpr(Ident(Str_User))), Field(<<>>, Ident(Str_error))>>)

Str_GetUser == <<"G","e","t","U","s","e","r">>

Str_List == <<"L","i","s","t">>

Str_Close == <<"C","l","o","s","e">>

Str_Watch == <<"W","a","t","c","h">>

Str_Run == <<"R","u","n">>

Str_Store == <<"S","t","o","r","e">>

Str_ids == <<"i","d","s">>

MethodNames == <<Str_GetUser, Str_List, Str_Close, Str_Watch>>

ErrorResult == FieldList(<<Field(<<>>, Ident(Str_error))>>)

\* (ctx context.Context, id int) (*User, error)
Sig_GetUser == FuncType(GetUserParams, GetUserResults)

\* (): no parameters and no result list
Sig_NoResults == FuncType(FieldList(<<>>), NilNode)

\* () error
Sig_NoParams == FuncType(FieldList(<<>>), ErrorResult)

\* (ctx chan int) error
Sig_Chan == FuncType(FieldList(<<Field(<<Ident(Str_ctx)>>, ChanType(Ident(Str_int)))>>), ErrorResult)

\* (ids ...int) error
Sig_Variadic == FuncType(FieldList(<<Field(<<Ident(Str_ids)>>, Ellipsis(Ident(Str_int)))>>), ErrorResult)

\* (n func(id int) error) error
Sig_Func ==
    FuncType(FieldList(<<Field(<<Ident(Str_n)>>,
                 FuncType(FieldList(<<Field(<<Ident(Str_id)>>, Ident(Str_int))>>), ErrorResult))>>),
             ErrorResult)

\* (n interface{ Run() error }) error
Sig_Interface ==
    FuncType(FieldList(<<Field(<<Ident(Str_n)>>,
                 InterfaceType(FieldList(<<Field(<<Ident(Str_Run)>>, Sig_NoParams)>>)))>>),
             ErrorResult)

Signatures ==
    {Sig_GetUser, Sig_NoResults, Sig_NoParams, Sig_Chan, Sig_Variadic, Sig_Func, Sig_Interface}

\* an embedded interface: an entry without names whose type is no FuncType
Embedded == Field(<<>>, Ident(Str_Foo))

\* the i-th entry of the interface: a method named MethodNames[i], or the embedding
InterfaceEntry(i, e) == IF e.kind = "FuncType" THEN Field(<<Ident(MethodNames[i])>>, e) ELSE e

MethodLists ==
    {[i \in DOMAIN l |-> InterfaceEntry(i, l[i])] :
        l \in UNION {[1..k -> Signatures \cup {Embedded}] : k \in 0..MaxMethods}}

QuerierSpec(entries) == TypeSpec(Str_Querier, InterfaceType(FieldList(entries)))

\* type Store interface { Close() error }
StoreSpec == TypeSpec(Str_Store, InterfaceType(FieldList(<<Field(<<Ident(Str_Close)>>, Sig_NoParams)>>)))

\* k declarations, the q-th of them Querier (q = 0: none is)
Decls(k, q, entries) == [i \in 1..k |-> IF i = q THEN QuerierSpec(entries) ELSE StoreSpec]

DeclLists ==
    {Decls(k, 0, <<>>) : k \in 0..MaxDecls}
        \cup {Decls(w[1], w[2], w[3]) :
                w \in {x \in (1..MaxDecls) \X (1..MaxDecls) \X MethodLists : x[2] <= x[1]}}

ImportSpec(name, raw, valid) ==
    [kind |-> "ImportSpec", name |-> name, path |-> [raw |-> raw, valid |-> valid]]

\* import ( "context"; m "ex.io/m" )
TwoImports ==
    <<ImportSpec(NilNode, Str_context, TRUE),
      ImportSpec(Ident(<<"m">>), <<"e","x",".","i","o","/","m">>, TRUE)>>

File(pkg, imports, decls) == [pkg |-> pkg, imports |-> imports, decls |-> decls]

Files == {File(Str_db, i, d) : i \in {<<>>, TwoImports}, d \in DeclLists}

\* a file go/parser rejects: an import path literal that is no valid string
BadFile == File(Str_db, <<ImportSpec(NilNode, <<"\\","x">>, FALSE)>>, <<>>)

Parsed(f) == [parses |-> TRUE, file |-> f]

Sources == {Parsed(f) : f \in Files} \cup {[parses |-> FALSE, file |-> BadFile]}

\* the sources of the whole-program runs
SampleSources ==
    {[parses |-> FALSE, file |-> BadFile],
     Parsed(File(Str_db, <<>>, <<>>)),
     Parsed(File(Str_db, TwoImports, <<StoreSpec>>)),
     Parsed(File(Str_db, TwoImports, <<QuerierSpec(<<InterfaceEntry(1, Sig_GetUser)>>)>>)),
     Parsed(File(Str_db, <<>>, <<StoreSpec, QuerierSpec(<<InterfaceEntry(1, Sig_GetUser),
                                                        InterfaceEntry(2, Sig_Chan)>>)>>)),
     Parsed(File(Str_db, <<>>, <<QuerierSpec(<<InterfaceEntry(1, Sig_NoResults)>>)>>))}

(***************************************************************************)
(* Inputs of findOutputModule: a file system, a working directory and the  *)
(* path given on the command line.                                         *)
(***************************************************************************)
SegNames == <<"a","b","c","d","e">>

\* "/", "/a", "/a/b", ...
RECURSIVE ChainDir(_)
ChainDir(k) == IF k = 0 THEN <<"/">> ELSE Join(ChainDir(k - 1), <<SegNames[k]>>)

ChainDirs == {ChainDir(k) : k \in 0..MaxPathLen}

\* a directory that is no ancestor of any directory of the chain but "/"
OtherDir == <<"/","w">>

Dirs == ChainDirs \cup {OtherDir}

FileSystems == [Dirs -> {"none", "dir", "file"}]

Str_qgo == <<"q",".","g","o">>

\* absolute paths into the chain, and a path relative to the working directory
InputFiles == {Join(d, Str_qgo) : d \in ChainDirs} \cup {Str_qgo}

Str_mod1 == <<"e","x",".","i","o","/","m">>

Str_mod2 == <<"k","i","t">>

GoModContents ==
    {GarbageContent, NoModuleContent, ModuleContent(Str_mod1), ModuleContent(Str_mod2)}

(***************************************************************************)
(* Inputs of run: the command line and the environment of the process.     *)
(***************************************************************************)
Str_mocks == <<"m","o","c","k","s">>

Str_tpl == <<"t",".","t","p","l">>

\* --output gen/mock.go
Str_out == <<"g","e","n","/","m","o","c","k",".","g","o">>

NoOpts ==
    [InputFile |-> <<>>, TemplateFile |-> <<>>, OutputFile |-> <<>>,
     OutputPackage |-> <<>>, Format |-> FALSE]

\* the positional argument: /a/q.go, or q.go in the working directory
RunInputs == {Join(ChainDir(1), Str_qgo), Str_qgo}

\* go.mod in /a only, in no directory, in /w only
GoModIn(D) == [d \in Dirs |-> IF d \in D THEN "file" ELSE "none"]

RunEnvs ==
    {[fs |-> GoModIn({ChainDir(1)}), cwd |-> ChainDir(1)],
     [fs |-> GoModIn({}), cwd |-> OtherDir],
     [fs |-> GoModIn({OtherDir}), cwd |-> OtherDir]}

\* the opts Parse is called with when it is run on its own
ParseOpts ==
    {[InputFile |-> i, TemplateFile |-> <<>>, OutputFile |-> Str_out,
      OutputPackage |-> p, Format |-> TRUE] : i \in RunInputs, p \in {<<>>, Str_mocks}}

NoBytes == [template |-> "none", data |-> EmptyOutput, formatted |-> FALSE]

(***************************************************************************)
(* State.                                                                  *)
(***************************************************************************)
VARIABLES
    flist,    \* fields: the list argument
    fpkg,     \* fields: the pkg argument
    fret,     \* fields: the returned slice, or the panic
    fpc,      \* fields: "call" before the call, "done" after it
    mfs,      \* the file system: directory -> what its go.mod is
    mcwd,     \* the working directory of the process
    minput,   \* opts.InputFile
    mpc,      \* findOutputModule: "abs", "search", "read", "parse", "done"
    mdir,     \* findOutputModule: dir
    mcur,     \* findModuleRoot: dir, the directory the loop looks at
    msteps,   \* findModuleRoot: iterations of the loop so far
    mroot,    \* findOutputModule: root
    mcontent, \* findOutputModule: what modfile.Parse is given
    mfrom,    \* the directory whose go.mod os.ReadFile has read
    mres,     \* findOutputModule: outcome, error and output.ModelPath
    src,      \* the source file on disk: whether it parses, and its syntax tree
    opts,     \* run: opts
    pc,       \* the statement the process is at
    file,     \* Parse: file
    querier,  \* Parse: querier
    methods,  \* Parse: methods
    imports,  \* Parse: imports
    output,   \* run: output, the Output Parse returned
    perr,     \* run: the error Parse returned
    tpl,      \* Render: templateContent, "default" or "custom"
    buff,     \* Render: buff, the output of the template
    generated, \* run: generated, the bytes Render returned
    rerr,     \* run: the error Render returned
    err,      \* main: the error run returned
    written,  \* the output file: "no", "partial" or "full"
    exit,     \* the exit status of the process, -1 while it runs
    rendered, \* output.Render has been called
    stagesDone, \* the stages of the pipeline that have succeeded
    stageFailed \* the stage that failed, "none" when none has

fieldsVars == <<flist, fpkg, fret, fpc>>

moduleVars == <<mfs, mcwd, minput, mpc, mdir, mcur, msteps, mroot, mcontent, mfrom, mres>>

runVars == <<src, opts, pc, file, querier, methods, imports, output, perr, tpl, buff,
             generated, rerr, err, written, exit, rendered, stagesDone, stageFailed>>

vars == <<fieldsVars, moduleVars, runVars>>

\* the variables of fields while another function runs
FieldsIdle ==
    /\ flist = NilNode
    /\ fpkg = <<>>
    /\ fret = [panic |-> FALSE, ret |-> <<>>]
    /\ fpc = "idle"

\* the locals of findOutputModule while it is not run step by step
ModuleLocalsIdle ==
    /\ minput = <<>>
    /\ mpc = "idle"
    /\ mdir = <<>>
    /\ mcur = <<>>
    /\ msteps = 0
    /\ mroot = <<>>
    /\ mcontent = GarbageContent
    /\ mfrom = <<>>
    /\ mres = NoResult

\* the variables of findOutputModule while another function runs
ModuleIdle ==
    /\ mfs = GoModIn({})
    /\ mcwd = <<"/">>
    /\ ModuleLocalsIdle

\* the locals of Parse, Render, run and main before they run
RunLocalsInit ==
    /\ file = File(<<>>, <<>>, <<>>)
    /\ querier = NilNode
    /\ methods = <<>>
    /\ imports = <<>>
    /\ output = EmptyOutput
    /\ perr = "nil"
    /\ tpl = "none"
    /\ buff = NoBytes
    /\ generated = NoBytes
    /\ rerr = "nil"
    /\ err = "nil"
    /\ written = "no"
    /\ exit = -1
    /\ rendered = FALSE
    /\ stagesDone = {}
    /\ stageFailed = "none"

\* the variables of run while another function runs
RunIdle ==
    /\ src = [parses |-> FALSE, file |-> BadFile]
    /\ opts = NoOpts
    /\ pc = "idle"
    /\ RunLocalsInit

(***************************************************************************)
(* fields as a call: SpecFields.                                           *)
(***************************************************************************)
InitFields ==
    /\ flist \in InputLists
    /\ fpkg \in Packages
    /\ fret = [panic |-> FALSE, ret |-> <<>>]
    /\ fpc = "call"
    /\ ModuleIdle
    /\ RunIdle

CallFields ==
    /\ fpc = "call"
    /\ fret' = fields(flist, fpkg)
    /\ fpc' = "done"
    /\ UNCHANGED <<flist, fpkg>>
    /\ UNCHANGED <<moduleVars, runVars>>

NextFields == CallFields

SpecFields == InitFields /\ [][NextFields]_vars

(***************************************************************************)
(* findOutputModule step by step: SpecModule.                              *)
(***************************************************************************)
InitModule ==
    /\ mfs \in FileSystems
    /\ mcwd \in Dirs
    /\ minput \in InputFiles
    /\ mpc = "abs"
    /\ mdir = <<>>
    /\ mcur = <<>>
    /\ msteps = 0
    /\ mroot = <<>>
    /\ mcontent = GarbageContent
    /\ mfrom = <<>>
    /\ mres = NoResult
    /\ FieldsIdle
    /\ RunIdle

\* lines 174-179: filepath.Abs, filepath.Dir and the call of findModuleRoot
ModAbs ==
    /\ mpc = "abs"
    /\ \E absOk \in BOOLEAN :
        LET a == filepathAbs(mcwd, minput, absOk) IN
        IF a.ok
        THEN /\ mdir' = Dir(a.abs)
             /\ mcur' = Dir(a.abs)
             /\ mpc' = "search"
             /\ UNCHANGED mres
        ELSE /\ mres' = [outcome |-> "error", err |-> "filepath.Abs", ModelPath |-> <<>>]
             /\ mpc' = "done"
             /\ UNCHANGED <<mdir, mcur>>
    /\ UNCHANGED <<mfs, mcwd, minput, msteps, mroot, mcontent, mfrom>>
    /\ UNCHANGED <<fieldsVars, runVars>>

\* lines 194-204: one iteration of the loop of findModuleRoot
ModSearch ==
    /\ mpc = "search"
    /\ LET step == findModuleRootStep(mfs, mcur) IN
        /\ msteps' = msteps + 1
        /\ mcur' = step.dir
        /\ IF step.done
           THEN mroot' = step.root /\ mpc' = "read"
           ELSE UNCHANGED <<mroot, mpc>>
    /\ UNCHANGED <<mfs, mcwd, minput, mdir, mcontent, mfrom, mres>>
    /\ UNCHANGED <<fieldsVars, runVars>>

\* lines 180-184: filepath.Join and os.ReadFile
ModRead ==
    /\ mpc = "read"
    /\ \E readOk \in BOOLEAN, content \in GoModContents :
        LET r == readGoMod(mfs, mcwd, Join(mroot, Str_gomod), readOk, content) IN
        IF r.ok
        THEN /\ mcontent' = r.content
             /\ mfrom' = r.from
             /\ mpc' = "parse"
             /\ UNCHANGED mres
        ELSE /\ mres' = [outcome |-> "error", err |-> "os.ReadFile", ModelPath |-> <<>>]
             /\ mpc' = "done"
             /\ UNCHANGED <<mcontent, mfrom>>
    /\ UNCHANGED <<mfs, mcwd, minput, mdir, mcur, msteps, mroot>>
    /\ UNCHANGED <<fieldsVars, runVars>>

\* lines 185-190: modfile.Parse and output.ModelPath
ModParse ==
    /\ mpc = "parse"
    /\ mres' = deriveModelPath(mcontent, mdir, mroot)
    /\ mpc' = "done"
    /\ UNCHANGED <<mfs, mcwd, minput, mdir, mcur, msteps, mroot, mcontent, mfrom>>
    /\ UNCHANGED <<fieldsVars, runVars>>

NextModule == ModAbs \/ ModSearch \/ ModRead \/ ModParse

SpecModule == InitModule /\ [][NextModule]_vars

(***************************************************************************)
(* The program: main, run, Parse and Render, one action per stage.         *)
(***************************************************************************)
\* an exit of the whole process from inside a stage: log.Fatal (1), a panic (2)
Dies(status, stage) ==
    /\ exit' = status
    /\ pc' = "exit"
    /\ stageFailed' = stage

\* main.go lines 22-32: the flags and the positional argument
FlagParse ==
    /\ pc = "FlagParse"
    /\ \E narg \in 0..1, input \in RunInputs, t \in {<<>>, Str_tpl},
          p \in {<<>>, Str_mocks}, f \in BOOLEAN :
        LET flags == [NoOpts EXCEPT !.TemplateFile = t, !.OutputFile = Str_out,
                                    !.OutputPackage = p, !.Format = f] IN
        IF narg = 0
        THEN /\ opts' = flags
             /\ err' = "usage"
             /\ pc' = "main"
             /\ stageFailed' = "usage"
        ELSE /\ opts' = [flags EXCEPT !.InputFile = input]
             /\ err' = "nil"
             /\ pc' = "ParseFile"
             /\ UNCHANGED stageFailed
    /\ UNCHANGED <<src, file, querier, methods, imports, output, perr, tpl, buff, generated, rerr, written, exit, rendered, stagesDone>>
    /\ UNCHANGED <<fieldsVars, moduleVars>>

\* lines 63-67: parser.ParseFile, log.Fatal on an error
ParseFile ==
    /\ pc = "ParseFile"
    /\ IF src.parses
       THEN /\ file' = src.file
            /\ pc' = "FindQuerier"
            /\ stagesDone' = stagesDone \cup {"parse"}
            /\ UNCHANGED <<exit, stageFailed>>
       ELSE /\ Dies(1, "parse")
            /\ UNCHANGED <<file, stagesDone>>
    /\ UNCHANGED <<src, opts, querier, methods, imports, output, perr, tpl, buff, generated, rerr, err, written, rendered>>
    /\ UNCHANGED <<fieldsVars, moduleVars>>

\* lines 69-82: the first ast.Inspect, and ErrNoQuerier
FindQuerier ==
    /\ pc = "FindQuerier"
    /\ querier' = findQuerier(file.decls, NilNode)
    /\ IF querier'.kind = "nil"
       THEN /\ output' = EmptyOutput
            /\ perr' = "ErrNoQuerier"
            /\ pc' = "ParseReturned"
            /\ stageFailed' = "extract"
       ELSE /\ pc' = "InspectQuerier"
            /\ UNCHANGED <<output, perr, stageFailed>>
    /\ UNCHANGED <<src, opts, file, methods, imports, tpl, buff, generated, rerr, err, written, exit, rendered, stagesDone>>
    /\ UNCHANGED <<fieldsVars, moduleVars>>

\* lines 84-101: the second ast.Inspect
InspectQuerier ==
    /\ pc = "InspectQuerier"
    /\ LET r == extractMethods(querier, file.pkg) IN
        IF r.panic
        THEN /\ Dies(2, "extract")
             /\ UNCHANGED <<methods, stagesDone>>
        ELSE /\ methods' = r.methods
             /\ pc' = "CollectImports"
             /\ stagesDone' = stagesDone \cup {"extract"}
             /\ UNCHANGED <<exit, stageFailed>>
    /\ UNCHANGED <<src, opts, file, querier, imports, output, perr, tpl, buff, generated, rerr, err, written, rendered>>
    /\ UNCHANGED <<fieldsVars, moduleVars>>

\* lines 103-117
CollectImports ==
    /\ pc = "CollectImports"
    /\ LET r == collectImports(file.imports, <<>>) IN
        IF r.ok
        THEN /\ imports' = r.imports
             /\ pc' = "SetOutputPackage"
             /\ stagesDone' = stagesDone \cup {"imports"}
             /\ UNCHANGED <<output, perr, stageFailed>>
        ELSE /\ output' = EmptyOutput
             /\ perr' = "strconv.Unquote"
             /\ pc' = "ParseReturned"
             /\ stageFailed' = "imports"
             /\ UNCHANGED <<imports, stagesDone>>
    /\ UNCHANGED <<src, opts, file, querier, methods, tpl, buff, generated, rerr, err, written, exit, rendered>>
    /\ UNCHANGED <<fieldsVars, moduleVars>>

\* lines 119-125: the Output value and setOutputPackage
SetOutputPackage ==
    /\ pc = "SetOutputPackage"
    /\ \E absOk \in BOOLEAN :
        LET r == setOutputPackage(opts, mcwd, absOk) IN
        IF r.fatal
        THEN /\ Dies(1, "package")
             /\ UNCHANGED <<output, stagesDone>>
        ELSE /\ output' = [GenPackage |-> r.GenPackage, ModelPath |-> <<>>,
                           Package |-> file.pkg, Struct |-> Str_Mocker,
                           Imports |-> imports, Methods |-> methods]
             /\ pc' = "FindOutputModule"
             /\ stagesDone' = stagesDone \cup {"package"}
             /\ UNCHANGED <<exit, stageFailed>>
    /\ UNCHANGED <<src, opts, file, querier, methods, imports, perr, tpl, buff, generated, rerr, err, written, rendered>>
    /\ UNCHANGED <<fieldsVars, moduleVars>>

\* lines 126-130: findOutputModule, and the return of Parse
FindOutputModule ==
    /\ pc = "FindOutputModule"
    /\ \E io \in [absOk : BOOLEAN, readOk : BOOLEAN, content : GoModContents] :
        LET r == findOutputModule(mfs, mcwd, opts.InputFile, io) IN
        CASE r.outcome = "ok" ->
                /\ output' = [output EXCEPT !.ModelPath = r.ModelPath]
                /\ perr' = "nil"
                /\ pc' = "ParseReturned"
                /\ stagesDone' = stagesDone \cup {"module"}
                /\ UNCHANGED <<exit, stageFailed>>
          [] r.outcome = "error" ->
                /\ output' = EmptyOutput
                /\ perr' = r.err
                /\ pc' = "ParseReturned"
                /\ stageFailed' = "module"
                /\ UNCHANGED <<exit, stagesDone>>
          [] r.outcome = "panic" ->
                /\ Dies(2, "module")
                /\ UNCHANGED <<output, perr, stagesDone>>
    /\ UNCHANGED <<src, opts, file, querier, methods, imports, tpl, buff, generated, rerr, err, written, rendered>>
    /\ UNCHANGED <<fieldsVars, moduleVars>>

\* main.go lines 34-37
RunAfterParse ==
    /\ pc = "ParseReturned"
    /\ pc' = afterParse(perr)
    /\ err' = perr
    /\ UNCHANGED <<src, opts, file, querier, methods, imports, output, perr, tpl, buff, generated, rerr, written, exit, rendered, stagesDone, stageFailed>>
    /\ UNCHANGED <<fieldsVars, moduleVars>>

\* lines 225-232: the template, the default one or the file of --template
RenderReadTemplate ==
    /\ pc = "RenderReadTemplate"
    /\ rendered' = TRUE
    /\ \E readOk \in BOOLEAN :
        IF opts.TemplateFile # <<>> /\ ~readOk
        THEN /\ rerr' = "failed to open template file"
             /\ pc' = "RenderReturned"
             /\ stageFailed' = "render"
             /\ UNCHANGED tpl
        ELSE /\ tpl' = IF opts.TemplateFile # <<>> THEN "custom" ELSE "default"
             /\ pc' = "RenderExecute"
             /\ UNCHANGED <<rerr, stageFailed>>
    /\ UNCHANGED <<src, opts, file, querier, methods, imports, output, perr, buff, generated, err, written, exit, stagesDone>>
    /\ UNCHANGED <<fieldsVars, moduleVars>>

\* lines 234-245: template Parse and Execute, log.Fatal on an error of either
RenderExecute ==
    /\ pc = "RenderExecute"
    /\ \E parseOk \in BOOLEAN, executeOk \in BOOLEAN :
        IF parseOk /\ executeOk
        THEN /\ buff' = [template |-> tpl, data |-> output, formatted |-> FALSE]
             /\ pc' = "RenderFormat"
             /\ stagesDone' = stagesDone \cup {"render"}
             /\ UNCHANGED <<exit, stageFailed>>
        ELSE /\ Dies(1, "render")
             /\ UNCHANGED <<buff, stagesDone>>
    /\ UNCHANGED <<src, opts, file, querier, methods, imports, output, perr, tpl, generated, rerr, err, written, rendered>>
    /\ UNCHANGED <<fieldsVars, moduleVars>>

\* lines 247-256: format.Source when opts.Format is set, and the return of Render
RenderFormat ==
    /\ pc = "RenderFormat"
    /\ pc' = "RenderReturned"
    /\ \E formatOk \in BOOLEAN :
        IF ~opts.Format
        THEN /\ generated' = buff
             /\ rerr' = "nil"
             /\ UNCHANGED <<stagesDone, stageFailed>>
        ELSE IF formatOk
        THEN /\ generated' = [buff EXCEPT !.formatted = TRUE]
             /\ rerr' = "nil"
             /\ stagesDone' = stagesDone \cup {"format"}
             /\ UNCHANGED stageFailed
        ELSE /\ rerr' = "failed to format source"
             /\ stageFailed' = "format"
             /\ UNCHANGED <<generated, stagesDone>>
    /\ UNCHANGED <<src, opts, file, querier, methods, imports, output, perr, tpl, buff, err, written, exit, rendered>>
    /\ UNCHANGED <<fieldsVars, moduleVars>>

\* main.go lines 38-41
RunAfterRender ==
    /\ pc = "RenderReturned"
    /\ pc' = afterRender(rerr)
    /\ err' = rerr
    /\ UNCHANGED <<src, opts, file, querier, methods, imports, output, perr, tpl, buff, generated, rerr, written, exit, rendered, stagesDone, stageFailed>>
    /\ UNCHANGED <<fieldsVars, moduleVars>>

\* main.go lines 43-47: os.WriteFile; a failed write may leave a truncated file
WriteFile ==
    /\ pc = "WriteFile"
    /\ pc' = "main"
    /\ \E w \in {"full", "partial", "no"} :
        /\ written' = w
        /\ err' = IF w = "full" THEN "nil" ELSE "os.WriteFile"
        /\ stageFailed' = IF w = "full" THEN stageFailed ELSE "write"
    /\ UNCHANGED <<src, opts, file, querier, methods, imports, output, perr, tpl, buff, generated, rerr, exit, rendered, stagesDone>>
    /\ UNCHANGED <<fieldsVars, moduleVars>>

\* main.go lines 13-19
Main ==
    /\ pc = "main"
    /\ exit' = exitStatus(err)
    /\ pc' = "exit"
    /\ UNCHANGED <<src, opts, file, querier, methods, imports, output, perr, tpl, buff, generated, rerr, err, written, rendered, stagesDone, stageFailed>>
    /\ UNCHANGED <<fieldsVars, moduleVars>>

\* the environment of a run: RunEnvs, with findOutputModule's own locals idle
InitEnv ==
    /\ \E e \in RunEnvs : mfs = e.fs /\ mcwd = e.cwd
    /\ ModuleLocalsIdle
    /\ FieldsIdle

\* Parse called on its own
InitParse ==
    /\ src \in Sources
    /\ opts \in ParseOpts
    /\ pc = "ParseFile"
    /\ RunLocalsInit
    /\ InitEnv

NextParse ==
    \/ ParseFile
    \/ FindQuerier
    \/ InspectQuerier
    \/ CollectImports
    \/ SetOutputPackage
    \/ FindOutputModule

SpecParse == InitParse /\ [][NextParse]_vars

\* the whole program
Init ==
    /\ src \in SampleSources
    /\ opts = NoOpts
    /\ pc = "FlagParse"
    /\ RunLocalsInit
    /\ InitEnv

Next ==
    \/ FlagParse
    \/ ParseFile
    \/ FindQuerier
    \/ InspectQuerier
    \/ CollectImports
    \/ SetOutputPackage
    \/ FindOutputModule
    \/ RunAfterParse
    \/ RenderReadTemplate
    \/ RenderExecute
    \/ RenderFormat
    \/ RunAfterRender
    \/ WriteFile
    \/ Main

Spec == Init /\ [][Next]_vars

(***************************************************************************)
(* What the specification says of a type expression, stated on the syntax  *)
(* tree (not through exprToString).                                        *)
(***************************************************************************)
IsWrapper(expr) == expr.kind \in {"StarExpr", "ArrayType"}

Inner(expr) == IF expr.kind = "StarExpr" THEN expr.x ELSE expr.elt

\* the expression under every pointer / slice / array constructor
RECURSIVE Core(_)
Core(expr) == IF IsWrapper(expr) THEN Core(Inner(expr)) ELSE expr

\* the constructors around the core as 4.1 renders them: "*" and "[]"
RECURSIVE RenderedPrefix(_)
RenderedPrefix(expr) ==
    IF ~IsWrapper(expr) THEN <<>>
    ELSE (IF expr.kind = "StarExpr" THEN <<"*">> ELSE <<"[","]">>)
             \o RenderedPrefix(Inner(expr))

\* every constructor around the core is a pointer or a slice
RECURSIVE PointersAndSlices(_)
PointersAndSlices(expr) ==
    \/ ~IsWrapper(expr)
    \/ /\ expr.kind = "ArrayType" => expr.len.kind = "nil"
       /\ PointersAndSlices(Inner(expr))

\* the text of the expression in the source file
RECURSIVE SourceSpelling(_)
SourceSpelling(expr) ==
    CASE expr.kind = "Ident"        -> expr.name
      [] expr.kind = "SelectorExpr" -> expr.x.name \o <<".">> \o expr.sel.name
      [] expr.kind = "StarExpr"     -> <<"*">> \o SourceSpelling(expr.x)
      [] expr.kind = "ArrayType"    ->
            (IF expr.len.kind = "nil" THEN <<"[","]">>
             ELSE <<"[">> \o expr.len.value \o <<"]">>) \o SourceSpelling(expr.elt)
      [] expr.kind = "ChanType"     -> <<"c","h","a","n"," ">> \o SourceSpelling(expr.value)
      [] OTHER                      -> <<"?">>

IsUpperIdent(expr) == expr.kind = "Ident" /\ expr.name # <<>> /\ expr.name[1] \in UpperAZ

IsLowerIdent(expr) == expr.kind = "Ident" /\ expr.name # <<>> /\ expr.name[1] \in LowerAZ

\* one Field per name of an entry, or one unnamed Field, all of type tp
ExpandEntry(entry, tp) ==
    IF entry.names = <<>> THEN <<[Name |-> <<>>, Type |-> tp]>>
    ELSE [i \in 1..Len(entry.names) |-> [Name |-> entry.names[i].name, Type |-> tp]]

RECURSIVE ExpandList(_, _)
ExpandList(l, pkg) ==
    IF l = <<>> THEN <<>>
    ELSE ExpandEntry(Head(l), fieldOf(Head(l), pkg).Type) \o ExpandList(Tail(l), pkg)

FieldsReturned == fpc = "done" /\ ~fret.panic

(***************************************************************************)
(* Claims about fields (SpecFields).                                       *)
(***************************************************************************)
\* C2: fields emits one Field per individual name of every entry, in order, all
\* with the entry's rendered type, and one Field with an empty Name for an
\* unnamed entry: (a, b int) yields [{a,int},{b,int}].
C2_OneFieldPerName ==
    FieldsReturned => fret.ret = ExpandList(flist.list, fpkg)

IsAncestorOrSelf(d, dir) ==
    \/ d = dir
    \/ d = <<"/">> /\ IsAbs(dir)
    \/ HasPrefix(dir, d \o <<"/">>)

\* the ancestors of the input file's directory that hold a regular file go.mod
ModuleDirs == {d \in DOMAIN mfs : IsAncestorOrSelf(d, mdir) /\ mfs[d] = "file"}

NearestModuleDir == CHOOSE d \in ModuleDirs : \A e \in ModuleDirs : Len(e) <= Len(d)

\* the number of path segments of an absolute directory
Depth(dir) == IF dir = <<"/">> THEN 0 ELSE Cardinality({i \in 1..Len(dir) : dir[i] = "/"})

\* findModuleRoot has been called
Searching == mpc = "search"

\* findModuleRoot has returned
Searched == mpc \in {"read", "parse"} \/ (mpc = "done" /\ mres.err # "filepath.Abs")

\* C9: when an ancestor of the input file (its own directory included) holds a
\* go.mod, findModuleRoot ascends parent by parent, terminates and returns the
\* nearest such directory R, and ModelPath is the module path declared in R's
\* go.mod followed by the part of the input directory beyond R.
C9_NearestRootAndModelPath ==
    ModuleDirs # {} =>
        /\ Searching =>
            /\ IsAncestorOrSelf(mcur, mdir)
            /\ msteps = Depth(mdir) - Depth(mcur)
            /\ \A d \in ModuleDirs : Len(d) <= Len(mcur)
        /\ Searched =>
            /\ mroot = NearestModuleDir
            /\ msteps <= Depth(mdir) + 1
        /\ mpc = "parse" => mfrom = NearestModuleDir
        /\ (mpc = "done" /\ mres.outcome = "ok") =>
            /\ mfrom = NearestModuleDir
            /\ mres.ModelPath =
                   mcontent.path \o SubSeq(mdir, Len(NearestModuleDir) + 1, Len(mdir))

\* the input is /a/b/q.go, /a/b has no go.mod, /a has one declaring ex.io/m:
\* ModelPath is ex.io/m/b
C9_Witness ==
    /\ mpc = "done"
    /\ mres.outcome = "ok"
    /\ mdir = <<"/","a","/","b">>
    /\ mroot = <<"/","a">>
    /\ msteps = 2
    /\ mres.ModelPath = <<"e","x",".","i","o","/","m","/","b">>

\* C10: when no ancestor of the input file holds a go.mod, Parse returns an
\* error and produces no Output whatever the working directory is: it reads no
\* go.mod outside the ancestors and builds no ModelPath from one.
C10_NoOutputWithoutRoot ==
    (mpc = "done" /\ Searched /\ ModuleDirs = {}) => mres.outcome # "ok"

(***************************************************************************)
(* What the specification says of a source file, stated on its syntax tree *)
(* (not through the traversals of Parse).                                  *)
(***************************************************************************)
HasQuerier(f) == \E i \in DOMAIN f.decls : f.decls[i].name.name = Str_Querier

\* the declaration of Querier in a file that has one
TheQuerier(f) ==
    f.decls[CHOOSE i \in DOMAIN f.decls : f.decls[i].name.name = Str_Querier]

QuerierEntries(q) == q.type.methods.list

IsMethod(entry) == entry.type.kind = "FuncType"

\* the names of the methods the interface declares directly, in source order
DeclaredMethodNames(q) ==
    LET ms == SelectSeq(QuerierEntries(q), IsMethod)
    IN  [k \in DOMAIN ms |-> ms[k].names[1].name]

\* the entry i is the MethodIndex(q, i)-th method of the interface
MethodIndex(q, i) == Cardinality({k \in 1..i : IsMethod(QuerierEntries(q)[k])})

\* the parameter and result types of the methods: <<entry, list, index>>
TypePositions(q) ==
    {pos \in (DOMAIN QuerierEntries(q)) \X {"params", "results"} \X (1..(MaxEntries + 1)) :
        LET e == QuerierEntries(q)[pos[1]] IN
        /\ IsMethod(e)
        /\ e.type[pos[2]].kind = "FieldList"
        /\ pos[3] \in DOMAIN e.type[pos[2]].list}

TypeAt(q, pos) == QuerierEntries(q)[pos[1]].type[pos[2]].list[pos[3]].type

\* the shapes 4.1 does not support: neither an identifier nor pkg.Name at the core
IsUnsupported(t) == Core(t).kind \notin {"Ident", "SelectorExpr"}

UnsupportedPositions(q) == {pos \in TypePositions(q) : IsUnsupported(TypeAt(q, pos))}

\* the same type with a supported one (int) in place of an unsupported core
RECURSIVE SupportedForm(_)
SupportedForm(t) ==
    IF t.kind = "StarExpr" THEN StarExpr(SupportedForm(t.x))
    ELSE IF t.kind = "ArrayType" THEN ArrayType(t.len, SupportedForm(t.elt))
    ELSE IF IsUnsupported(t) THEN Ident(Str_int)
    ELSE t

SupportedList(l) ==
    IF l.kind = "nil" THEN l
    ELSE FieldList([j \in DOMAIN l.list |-> Field(l.list[j].names, SupportedForm(l.list[j].type))])

\* the interface with every unsupported parameter or result type made supported
SupportedTwin(q) ==
    TypeSpec(q.name.name,
        InterfaceType(FieldList(
            [i \in DOMAIN QuerierEntries(q) |->
                LET e == QuerierEntries(q)[i] IN
                IF IsMethod(e)
                THEN Field(e.names, FuncType(SupportedList(e.type.params), SupportedList(e.type.results)))
                ELSE e])))

\* the sentinel where the type at pos is rendered: inside its pointer / slice prefix
Sentinel(t) == RenderedPrefix(t) \o Unhandled(Core(t))

\* the Method records ms with the Type of the Field at pos replaced by the sentinel
WithSentinel(ms, q, pos) ==
    LET side == IF pos[2] = "params" THEN "Input" ELSE "Output"
        swap(fs) == [j \in DOMAIN fs |->
                        IF j = pos[3] THEN [fs[j] EXCEPT !.Type = Sentinel(TypeAt(q, pos))]
                        ELSE fs[j]]
    IN  [k \in DOMAIN ms |->
            IF k = MethodIndex(q, pos[1]) THEN [ms[k] EXCEPT ![side] = swap(ms[k][side])]
            ELSE ms[k]]

\* a method with no parameters, with an empty result list or with none
HasEmptyList(e) ==
    /\ IsMethod(e)
    /\ \/ e.type.params.list = <<>>
       \/ e.type.results.kind = "nil"
       \/ e.type.results.list = <<>>

LacksResults(e) == IsMethod(e) /\ e.type.results.kind = "nil"

ParseReturnedNil == pc = "ParseReturned" /\ perr = "nil"

(***************************************************************************)
(* Claims about Parse (SpecParse).                                         *)
(***************************************************************************)
\* C1: for a file that parses and holds an interface Querier with the methods
\* m1..mN declared directly, whatever their parameter and result types,
\* Parse returns exactly N Method records named m1..mN in declaration order.
C1_OneMethodPerDeclaration ==
    ParseReturnedNil =>
        [k \in DOMAIN output.Methods |-> output.Methods[k].Name]
            = DeclaredMethodNames(TheQuerier(src.file))

\* C6: with one parameter or result type of an unsupported shape, extraction
\* does not abort, the Field at that position holds the sentinel inside its
\* prefix, and every other Field and Method is what a supported type gives.
\* (Stated for interfaces whose methods all have a result list.)
C6_SentinelOnlyThere ==
    (src.parses /\ HasQuerier(src.file)) =>
        LET q == TheQuerier(src.file)
            U == UnsupportedPositions(q)
        IN  (Cardinality(U) = 1 /\ \A i \in DOMAIN QuerierEntries(q) : ~LacksResults(QuerierEntries(q)[i])) =>
                /\ stageFailed # "extract"
                /\ "extract" \in stagesDone =>
                       methods = WithSentinel(extractMethods(SupportedTwin(q), src.file.pkg).methods,
                                              q, CHOOSE pos \in U : TRUE)

\* C8: a method with zero parameters or zero results, also one without a result
\* list such as Close(), is extracted normally: the run does not crash, the
\* method is recorded, and its Input or Output is the empty sequence.
C8_EmptyListsExtracted ==
    (src.parses /\ HasQuerier(src.file)) =>
        LET es == QuerierEntries(TheQuerier(src.file)) IN
        (\E i \in DOMAIN es : HasEmptyList(es[i])) =>
            /\ ~(pc = "exit" /\ stageFailed = "extract")
            /\ "extract" \in stagesDone =>
                   \A i \in DOMAIN es :
                       HasEmptyList(es[i]) =>
                           \E k \in DOMAIN methods :
                               /\ methods[k].Name = es[i].names[1].name
                               /\ es[i].type.params.list = <<>> => methods[k].Input = <<>>
                               /\ (es[i].type.results.kind = "nil" \/ es[i].type.results.list = <<>>)
                                      => methods[k].Output = <<>>

(***************************************************************************)
(* Claims about the whole program (Spec).                                  *)
(***************************************************************************)
\* generator.Parse has been called and has returned
ParseHasReturned == pc = "ParseReturned" \/ (pc \in {"main", "exit"} /\ "parse" \in stagesDone)

\* C5: when the parsed file declares no type named Querier, Parse returns
\* ErrNoQuerier with an empty Output, and the run never renders and never
\* writes the output file.
C5_NoQuerierNoOutput ==
    (src.parses /\ ~HasQuerier(src.file)) =>
        /\ pc \in {"FlagParse", "ParseFile", "FindQuerier", "ParseReturned", "main", "exit"}
        /\ ParseHasReturned => (perr = "ErrNoQuerier" /\ output = EmptyOutput)
        /\ ~rendered
        /\ written = "no"
        /\ pc = "exit" => exit # 0

\* the file declares only Store, and the process has ended on ErrNoQuerier
C5_Witness ==
    /\ src = Parsed(File(Str_db, TwoImports, <<StoreSpec>>))
    /\ pc = "exit"
    /\ err = "ErrNoQuerier"
    /\ exit = 1
    /\ written = "no"

\* the stages that must have succeeded before the output file is written
RequiredStages ==
    {"parse", "extract", "imports", "package", "module", "render"}
        \cup (IF opts.Format THEN {"format"} ELSE {})

\* C7: the output file is written only after parsing, extraction, import
\* collection, module resolution, rendering and (with --format) formatting
\* have all succeeded; when one of them fails, by a returned error or by a
\* fatal log inside the generator, the run ends with a non-zero status and the
\* file has not been written.
C7_NoPartialSuccess ==
    /\ (pc = "WriteFile" \/ written # "no") => RequiredStages \subseteq stagesDone
    /\ (stageFailed \in RequiredStages \cup {"format"}) =>
            /\ written = "no"
            /\ pc # "WriteFile"
            /\ pc = "exit" => exit # 0
    /\ (pc = "exit" /\ exit = 0) => (written = "full" /\ stageFailed = "none")

\* every stage but formatting has succeeded, format.Source has failed, and the
\* process has ended with status 1 without writing
C7_Witness ==
    /\ pc = "exit"
    /\ stageFailed = "format"
    /\ stagesDone = {"parse", "extract", "imports", "package", "module", "render"}
    /\ exit = 1
    /\ written = "no"

====
